---- MODULE Spec2Model ----
(***************************************************************************)
(* A model of mixxx::RestApiServer (src/api/restapiserver.cpp): the        *)
(* listener (start, stop) and its accepted connections, the request        *)
(* parser, the router, the endpoint handlers and the response builder.     *)
(*                                                                         *)
(* Text (QByteArray, QString) is a sequence of atoms.  An atom is one      *)
(* byte that the code inspects ("/", "?", "[", " ", ":", the line feed     *)
(* LF, ...) or an indivisible run of bytes that contains none of them      *)
(* ("api", "Channel1", "%5B", ...).  Splitting, trimming, query stripping, *)
(* percent decoding and bracket wrapping work on these sequences as the    *)
(* code works on bytes.                                                    *)
(***************************************************************************)
EXTENDS Integers, Sequences, FiniteSets, TLC

VARIABLES
    listening,  \* m_pServer->isListening()
    m_port,     \* the port recorded by the last successful start()
    conn,       \* conn[c]: life cycle of the accepted socket c
    responses,  \* responses[c]: number of responses written to socket c
    served,     \* served[c]: handleClientData has read a non-empty burst on c
    released,   \* released[c]: number of deleteLater() calls on socket c
    ctl,        \* the control plane: ConfigKey -> value, for the controls that exist
    tracks,     \* PlayerInfo: the groups that have a track loaded
    ev          \* the event handled last, with the request parsed and the bytes written

vars == <<listening, m_port, conn, responses, served, released, ctl, tracks, ev>>

(***************************************************************************)
(* Bounds                                                                  *)
(***************************************************************************)
MaxConns == 2       \* sockets the listener accepts
MaxValue == 1       \* the control plane keeps values in 0..MaxValue

Conns == 1..MaxConns
Values == 0..MaxValue

(***************************************************************************)
(* Bytes                                                                   *)
(***************************************************************************)
LF == "\n"
CR == "\r"
SP == " "
Whitespace == {SP, LF, CR}

\* QByteArray::split(sep): the parts between separators, empty parts kept.
RECURSIVE SplitFrom(_, _, _, _)
SplitFrom(s, sep, i, cur) ==
    IF i > Len(s) THEN <<cur>>
    ELSE IF s[i] = sep THEN <<cur>> \o SplitFrom(s, sep, i + 1, <<>>)
    ELSE SplitFrom(s, sep, i + 1, Append(cur, s[i]))

Split(s, sep) == SplitFrom(s, sep, 1, <<>>)

\* QString::split(sep, Qt::SkipEmptyParts)
SplitSkipEmptyParts(s, sep) == SelectSeq(Split(s, sep), LAMBDA p : p # <<>>)

\* QByteArray::trimmed(): whitespace removed from both ends.
RECURSIVE TrimLeft(_)
TrimLeft(s) ==
    IF s # <<>> /\ Head(s) \in Whitespace THEN TrimLeft(Tail(s)) ELSE s

RECURSIVE TrimRight(_)
TrimRight(s) ==
    IF s # <<>> /\ s[Len(s)] \in Whitespace
    THEN TrimRight(SubSeq(s, 1, Len(s) - 1)) ELSE s

Trimmed(s) == TrimRight(TrimLeft(s))

\* indexOf(ch): the 0-based position of the first ch, -1 when there is none.
IndexOf(s, ch) ==
    IF \E i \in 1..Len(s) : s[i] = ch
    THEN (CHOOSE i \in 1..Len(s) : s[i] = ch /\ \A j \in 1..(i - 1) : s[j] # ch) - 1
    ELSE -1

\* left(n) and mid(n)
Left(s, n) == SubSeq(s, 1, n)
Mid(s, n) == SubSeq(s, n + 1, Len(s))

\* join(sep)
RECURSIVE Join(_, _)
Join(parts, sep) ==
    IF parts = <<>> THEN <<>>
    ELSE IF Len(parts) = 1 THEN parts[1]
    ELSE parts[1] \o <<sep>> \o Join(Tail(parts), sep)

\* QString::toLower() on the header names of the model.
LowerAtom(a) ==
    CASE a = "Content-Type" -> "content-type"
      [] a = "Host" -> "host"
      [] OTHER -> a

ToLower(s) == [i \in 1..Len(s) |-> LowerAtom(s[i])]

\* QUrl::fromPercentEncoding: each %XX triplet becomes the byte it encodes.
DecodeAtom(a) ==
    CASE a = "%5B" -> "["
      [] a = "%5D" -> "]"
      [] a = "%3F" -> "?"
      [] a = "%2F" -> "/"
      [] OTHER -> a

fromPercentEncoding(s) == [i \in 1..Len(s) |-> DecodeAtom(s[i])]

(***************************************************************************)
(* parseHttpRequest                                                        *)
(***************************************************************************)
NoHeaders == [k \in {} |-> <<>>]

\* The header loop: lines[i] for i = 1.. (0-based), up to the first line
\* that is empty once trimmed.  `lines` is 1-based here, so lines[i + 1].
\* Mutation: without an empty line there is no body (the index of the
\* header end starts at the number of lines).
RECURSIVE ParseHeadersNoBody(_, _, _)
ParseHeadersNoBody(lines, i, headers) ==
    IF i >= Len(lines) THEN [headers |-> headers, headerEndIndex |-> Len(lines)]
    ELSE LET line == Trimmed(lines[i + 1])
             colonIndex == IndexOf(line, ":")
         IN  IF line = <<>> THEN [headers |-> headers, headerEndIndex |-> i + 1]
             ELSE IF colonIndex > 0
             THEN LET key == ToLower(Trimmed(Left(line, colonIndex)))
                      value == Trimmed(Mid(line, colonIndex + 1))
                  IN  ParseHeadersNoBody(lines, i + 1,
                          [k \in DOMAIN headers \cup {key} |->
                              IF k = key THEN value ELSE headers[k]])
             ELSE ParseHeadersNoBody(lines, i + 1, headers)

RECURSIVE ParseHeaders(_, _, _)
ParseHeaders(lines, i, headers) ==
    IF i >= Len(lines) THEN [headers |-> headers, headerEndIndex |-> 1]
    ELSE LET line == Trimmed(lines[i + 1])
             colonIndex == IndexOf(line, ":")
         IN  IF line = <<>> THEN [headers |-> headers, headerEndIndex |-> i + 1]
             ELSE IF colonIndex > 0
             THEN LET key == ToLower(Trimmed(Left(line, colonIndex)))
                      value == Trimmed(Mid(line, colonIndex + 1))
                  IN  ParseHeaders(lines, i + 1,
                          [k \in DOMAIN headers \cup {key} |->
                              IF k = key THEN value ELSE headers[k]])
             ELSE ParseHeaders(lines, i + 1, headers)

\* Mutation: the first token is the method, whatever follows it.
RequestMethodOfAnyLine(requestLine) == requestLine[1]

\* request.method: the first token when the request line has two or more.
RequestMethod(requestLine) ==
    IF Len(requestLine) >= 2 THEN requestLine[1] ELSE <<>>

parseHttpRequest(data) ==
    LET lines == Split(data, LF)
        requestLine == Split(Trimmed(lines[1]), SP)
        hdr == ParseHeaders(lines, 1, NoHeaders)
    IN  [method |-> RequestMethod(requestLine),
         path |-> IF Len(requestLine) >= 2 THEN requestLine[2] ELSE <<>>,
         headers |-> hdr.headers,
         body |-> IF hdr.headerEndIndex < Len(lines)
                  THEN Join(SubSeq(lines, hdr.headerEndIndex + 1, Len(lines)), LF)
                  ELSE <<>>]

(***************************************************************************)
(* JSON: QJsonValue, QJsonObject, QJsonDocument                            *)
(***************************************************************************)
QUOTE == "\""

JNull == [t |-> "null"]
JNum(n) == [t |-> "num", v |-> n]
JStr(s) == [t |-> "str", v |-> s]
JBool(b) == [t |-> "bool", v |-> b]
JArr(a) == [t |-> "arr", v |-> a]
JObj(o) == [t |-> "obj", v |-> o]

\* A QJsonObject keeps its members sorted by key.
KeyOrder ==
    <<"album", "album_artist", "artist", "balance", "bpm", "comment", "composer",
      "duration", "error", "file_type", "genre", "group", "headMix", "headVolume",
      "item", "key", "keylock", "location", "loop_enabled", "master", "message",
      "play", "play_indicator", "players", "playposition", "pregain", "rate",
      "repeat", "success", "tempo_ratio", "title", "track", "track_loaded",
      "value", "volume", "year">>

\* QJsonDocument(json).toJson(): the bytes of the document.
RECURSIVE toJson(_)
RECURSIVE MembersToJson(_, _)
RECURSIVE ItemsToJson(_, _)
MembersToJson(o, keys) ==
    IF keys = <<>> THEN <<>>
    ELSE <<QUOTE, Head(keys), QUOTE, ":">> \o toJson(o[Head(keys)])
         \o (IF Len(keys) = 1 THEN <<>> ELSE <<",">>) \o MembersToJson(o, Tail(keys))

ItemsToJson(a, i) ==
    IF i > Len(a) THEN <<>>
    ELSE (IF i = 1 THEN <<>> ELSE <<",">>) \o toJson(a[i]) \o ItemsToJson(a, i + 1)

toJson(j) ==
    CASE j.t = "null" -> <<"null">>
      [] j.t = "num" -> <<ToString(j.v)>>
      [] j.t = "str" -> <<QUOTE>> \o j.v \o <<QUOTE>>
      [] j.t = "bool" -> <<IF j.v THEN "true" ELSE "false">>
      [] j.t = "arr" -> <<"[">> \o ItemsToJson(j.v, 1) \o <<"]">>
      [] j.t = "obj" ->
            <<"{">> \o MembersToJson(j.v, SelectSeq(KeyOrder, LAMBDA k : k \in DOMAIN j.v))
            \o <<"}">>

\* The numbers a request body can carry: one atom per number.
RequestValues == 0..(MaxValue + 1)
IsNumberAtom(a) == \E n \in RequestValues : ToString(n) = a
NumberOf(a) == CHOOSE n \in RequestValues : ToString(n) = a

\* One JSON value of a request body; [t |-> "invalid"] when the bytes are none.
ParseJsonValue(s) ==
    CASE Len(s) = 1 /\ IsNumberAtom(s[1]) -> JNum(NumberOf(s[1]))
      [] s = <<"true">> -> JBool(TRUE)
      [] s = <<"false">> -> JBool(FALSE)
      [] s = <<"null">> -> JNull
      [] Len(s) = 3 /\ s[1] = QUOTE /\ s[3] = QUOTE /\ s[2] # QUOTE -> JStr(<<s[2]>>)
      [] s = <<"[", "]">> -> JArr(<<>>)
      [] s = <<"{", "}">> -> JObj([k \in {} |-> JNull])
      [] OTHER -> [t |-> "invalid"]

\* QJsonDocument::fromJson(body): an object or an array document, or the
\* null document when the bytes are not one JSON object or array.
fromJson(body) ==
    LET s == SelectSeq(body, LAMBDA a : a \notin Whitespace)
        n == Len(s)
    IN  CASE s = <<"{", "}">> -> JObj([k \in {} |-> JNull])
          [] s = <<"[", "]">> -> JArr(<<>>)
          [] n >= 7 /\ s[1] = "{" /\ s[2] = QUOTE /\ s[4] = QUOTE /\ s[5] = ":"
                /\ s[3] # QUOTE /\ s[n] = "}"
                /\ ParseJsonValue(SubSeq(s, 6, n - 1)).t # "invalid" ->
                JObj([k \in {s[3]} |-> ParseJsonValue(SubSeq(s, 6, n - 1))])
          [] OTHER -> JNull

\* QJsonValue::toDouble(): the number, 0 for every value that is no number.
toDouble(j) == IF j.t = "num" THEN j.v ELSE 0

(***************************************************************************)
(* The control plane and the player registry (external collaborators)      *)
(***************************************************************************)
Channel1 == <<"[", "Channel1", "]">>
Channel2 == <<"[", "Channel2", "]">>
Master == <<"[", "Master", "]">>

\* ConfigKey(group, item)
ConfigKey(group, item) == <<group, item>>

\* The controls that the application may have created.
CtlKeys ==
    {ConfigKey(Channel1, <<"volume">>), ConfigKey(Master, <<"volume">>)}

\* The players that may have a track loaded.
Players == {Channel1, Channel2}

\* ControlObject::getControl(key): whether the control exists.
getControl(key) == key \in DOMAIN ctl

\* ControlObject::get()
ControlGet(key) == ctl[key]

\* ControlObject::set(value): the control plane stores the value clamped to
\* its range, or ignores the write.  The control planes it can be left in.
Clamp(v) == IF v > MaxValue THEN MaxValue ELSE IF v < 0 THEN 0 ELSE v
ControlSet(key, value) == {[ctl EXCEPT ![key] = Clamp(value)], ctl}

\* PlayerInfo::getTrackInfo(group): whether a track is loaded in the group.
getTrackInfo(group) == group \in tracks

\* PlayerInfo::getLoadedTracks(): the loaded groups in key order.
getLoadedTracks ==
    SelectSeq(<<Channel1, Channel2>>, LAMBDA group : group \in tracks)

(***************************************************************************)
(* HttpResponse and the endpoint handlers                                  *)
(*                                                                         *)
(* A handler yields its possible outcomes: the responses it passes to      *)
(* sendHttpResponse, in order, and the control plane it leaves.  There is  *)
(* one outcome, except for a write, which the control plane may ignore.    *)
(* `json` is the QJsonObject that the body was serialized from (JNull for  *)
(* a response without a body).                                             *)
(***************************************************************************)
\* struct HttpResponse: 200 "OK", no headers, empty body.
HttpResponse ==
    [statusCode |-> 200, statusText |-> "OK", headers |-> [k \in {} |-> ""],
     body |-> <<>>, json |-> JNull]

\* response.body = QJsonDocument(json).toJson()
WithBody(response, members) ==
    [response EXCEPT !.body = toJson(JObj(members)), !.json = JObj(members)]

WithStatus(response, code, text) ==
    [response EXCEPT !.statusCode = code, !.statusText = text]

Handled(sends, plane) == {[sends |-> sends, ctl |-> plane]}

\* The lambda getControlValue of getPlayerStatus and getAllPlayersStatus.
getControlValue(group, item) ==
    IF getControl(ConfigKey(group, item))
    THEN JNum(ControlGet(ConfigKey(group, item))) ELSE JNull

\* The accessors of the Track entity of a player.
TrackFields ==
    {"artist", "title", "album", "album_artist", "genre", "composer", "year",
     "comment", "duration", "bpm", "key", "location", "file_type"}

getTrackMetadata(track) ==
    JObj([f \in TrackFields |-> JStr(<<f, "of">> \o track)])

PlaybackItems ==
    {"play", "play_indicator", "playposition", "duration", "volume", "pregain",
     "bpm", "rate", "tempo_ratio", "keylock", "repeat", "loop_enabled",
     "track_loaded"}

getPlayerStatus(group) ==
    [k \in PlaybackItems \cup {"track"} |->
        IF k = "track"
        THEN (IF getTrackInfo(group) THEN getTrackMetadata(group) ELSE JNull)
        ELSE getControlValue(group, <<k>>)]

\* Mutation: the players array lists every player, loaded or not.
getAllPlayersStatusEveryPlayer ==
    LET players == [i \in 1..2 |->
                       LET group == <<Channel1, Channel2>>[i]
                           playerJson == getPlayerStatus(group)
                       IN  JObj([k \in DOMAIN playerJson \cup {"group"} |->
                                   IF k = "group" THEN JStr(group) ELSE playerJson[k]])]
        master == [k \in {"volume", "balance", "headVolume", "headMix"} |->
                      getControlValue(Master, <<k>>)]
    IN  [k \in {"players", "master"} |->
            IF k = "players" THEN JArr(players) ELSE JObj(master)]

getAllPlayersStatus ==
    LET loadedTracks == getLoadedTracks
        players == [i \in 1..Len(loadedTracks) |->
                       LET playerJson == getPlayerStatus(loadedTracks[i])
                       IN  JObj([k \in DOMAIN playerJson \cup {"group"} |->
                                   IF k = "group" THEN JStr(loadedTracks[i])
                                   ELSE playerJson[k]])]
        master == [k \in {"volume", "balance", "headVolume", "headMix"} |->
                      getControlValue(Master, <<k>>)]
    IN  [k \in {"players", "master"} |->
            IF k = "players" THEN JArr(players) ELSE JObj(master)]

handleGetStatus == Handled(<<WithBody(HttpResponse, getAllPlayersStatus)>>, ctl)

handleGetPlayer(group) ==
    LET json == getPlayerStatus(group)
    IN  IF DOMAIN json = {}
        THEN Handled(<<WithBody(WithStatus(HttpResponse, 404, "Not Found"),
                          [k \in {"error", "group"} |->
                              IF k = "error" THEN JStr(<<"Player not found">>)
                              ELSE JStr(group)])>>, ctl)
        ELSE Handled(<<WithBody(HttpResponse, json)>>, ctl)

ControlNotFound(group, item) ==
    WithBody(WithStatus(HttpResponse, 404, "Not Found"),
        [k \in {"error", "group", "item"} |->
            CASE k = "error" -> JStr(<<"Control not found">>)
              [] k = "group" -> JStr(group)
              [] k = "item" -> JStr(item)])

\* Mutation: no existence check; a missing control reads as 0.
handleGetControlUnchecked(group, item) ==
    Handled(<<WithBody(HttpResponse,
                [k \in {"group", "item", "value"} |->
                    CASE k = "group" -> JStr(group)
                      [] k = "item" -> JStr(item)
                      [] k = "value" ->
                            JNum(IF getControl(ConfigKey(group, item))
                                 THEN ControlGet(ConfigKey(group, item)) ELSE 0)])>>,
            ctl)

handleGetControl(group, item) ==
    IF ~getControl(ConfigKey(group, item))
    THEN Handled(<<ControlNotFound(group, item)>>, ctl)
    ELSE Handled(<<WithBody(HttpResponse,
                      [k \in {"group", "item", "value"} |->
                          CASE k = "group" -> JStr(group)
                            [] k = "item" -> JStr(item)
                            [] k = "value" -> JNum(ControlGet(ConfigKey(group, item)))])>>,
                 ctl)

BadRequest(error) ==
    WithBody(WithStatus(HttpResponse, 400, "Bad Request"),
        [k \in {"error"} |-> JStr(<<error>>)])

InvalidJsonBody == "Invalid JSON body. Expected {\"value\": <number>}"
MissingValueField == "Missing 'value' field in request body"

\* Mutation: only the null document is refused (!doc.isNull()).
isNotNull(doc) == doc.t # "null"

\* doc.isObject()
isObject(doc) == doc.t = "obj"

\* Mutation: the response echoes the value of the request.
ReadBackRequested(after, key, value) == value

\* json["value"] = pControl->get(), read after pControl->set(value)
ReadBack(after, key, value) == after[key]

\* Mutation: the value is written before the body and the control are
\* checked; a body without a number writes 0.
handleSetControlWritesFirst(group, item, body) ==
    LET doc == fromJson(body)
        key == ConfigKey(group, item)
        value == IF isObject(doc) /\ "value" \in DOMAIN doc.v
                 THEN toDouble(doc.v["value"]) ELSE 0
    IN  UNION {IF ~isObject(doc) THEN Handled(<<BadRequest(InvalidJsonBody)>>, after)
               ELSE IF "value" \notin DOMAIN doc.v
               THEN Handled(<<BadRequest(MissingValueField)>>, after)
               ELSE IF ~getControl(key)
               THEN Handled(<<ControlNotFound(group, item)>>, after)
               ELSE Handled(<<WithBody(HttpResponse,
                                [k \in {"success", "group", "item", "value"} |->
                                    CASE k = "success" -> JBool(TRUE)
                                      [] k = "group" -> JStr(group)
                                      [] k = "item" -> JStr(item)
                                      [] k = "value" -> JNum(after[key])])>>, after) :
               after \in IF getControl(key) THEN ControlSet(key, value) ELSE {ctl}}

handleSetControl(group, item, body) ==
    LET doc == fromJson(body)
    IN  IF ~isObject(doc) THEN Handled(<<BadRequest(InvalidJsonBody)>>, ctl)
        ELSE IF "value" \notin DOMAIN doc.v
        THEN Handled(<<BadRequest(MissingValueField)>>, ctl)
        ELSE LET value == toDouble(doc.v["value"])
                 key == ConfigKey(group, item)
             IN  IF ~getControl(key)
                 THEN Handled(<<ControlNotFound(group, item)>>, ctl)
                 ELSE UNION {Handled(<<WithBody(HttpResponse,
                                  [k \in {"success", "group", "item", "value"} |->
                                      CASE k = "success" -> JBool(TRUE)
                                        [] k = "group" -> JStr(group)
                                        [] k = "item" -> JStr(item)
                                        [] k = "value" -> JNum(ReadBack(after, key, value))])>>,
                              after) : after \in ControlSet(key, value)}

(***************************************************************************)
(* handleRequest: the router                                               *)
(***************************************************************************)
\* "Remove query string if present": only the last part is cut at its '?'.
StripQuery(pathParts) ==
    IF pathParts = <<>> THEN pathParts
    ELSE LET lastPart == pathParts[Len(pathParts)]
             queryIndex == IndexOf(lastPart, "?")
         IN  IF queryIndex >= 0
             THEN [pathParts EXCEPT ![Len(pathParts)] = Left(lastPart, queryIndex)]
             ELSE pathParts

\* Mutation: the group is looked up as it was given.
EnsureBracketsNever(group) == group

\* "Ensure group has brackets"
EnsureBrackets(group) ==
    IF group # <<>> /\ group[1] = "[" THEN group ELSE <<"[">> \o group \o <<"]">>

PathParts(path) == StripQuery(SplitSkipEmptyParts(path, "/"))

\* Mutation: the preflight answer is given only to paths under /api.
IsPreflightUnderApi(request) ==
    /\ request.method = <<"OPTIONS">>
    /\ SplitSkipEmptyParts(request.path, "/") # <<>>
    /\ SplitSkipEmptyParts(request.path, "/")[1] = <<"api">>

\* "Handle CORS preflight"
IsPreflight(request) == request.method = <<"OPTIONS">>

\* Mutation: a path without segments is not caught by the prefix check.
NotUnderApiNonEmpty(pathParts) == pathParts # <<>> /\ pathParts[1] # <<"api">>

\* pathParts.isEmpty() || pathParts[0] != "api"
NotUnderApi(pathParts) == pathParts = <<>> \/ pathParts[1] # <<"api">>

\* pathParts.size() < 2
TooFewSegments(pathParts) == Len(pathParts) < 2

EndpointNotFound ==
    WithBody(WithStatus(HttpResponse, 404, "Not Found"),
        [k \in {"error"} |-> JStr(<<"Endpoint not found">>)])

\* The last branch of the control endpoint.
MethodNotAllowed ==
    WithBody(WithStatus(HttpResponse, 405, "Method Not Allowed"),
        [k \in {"error"} |-> JStr(<<"Method Not Allowed">>)])

handleRequest(request) ==
    IF IsPreflight(request)
    THEN Handled(<<WithStatus(HttpResponse, 204, "No Content")>>, ctl)
    ELSE
    LET pathParts == PathParts(request.path)
    IN  IF NotUnderApi(pathParts)
        THEN Handled(<<WithBody(WithStatus(HttpResponse, 404, "Not Found"),
                          [k \in {"error", "message"} |->
                              IF k = "error" THEN JStr(<<"Not Found">>)
                              ELSE JStr(<<"API endpoints are under /api">>)])>>, ctl)
        ELSE IF TooFewSegments(pathParts)
        THEN Handled(<<BadRequest("Bad Request")>>, ctl)
        ELSE
        LET endpoint == pathParts[2]
        IN  IF endpoint = <<"status">> /\ request.method = <<"GET">>
            THEN handleGetStatus
            ELSE IF endpoint = <<"player">> /\ Len(pathParts) >= 3
                    /\ request.method = <<"GET">>
            THEN handleGetPlayer(EnsureBrackets(fromPercentEncoding(pathParts[3])))
            ELSE IF endpoint = <<"control">> /\ Len(pathParts) >= 4
            THEN LET group == EnsureBrackets(fromPercentEncoding(pathParts[3]))
                     item == fromPercentEncoding(pathParts[4])
                 IN  IF request.method = <<"GET">>
                     THEN handleGetControl(group, item)
                     ELSE IF request.method = <<"POST">>
                     THEN handleSetControl(group, item, request.body)
                     ELSE Handled(<<MethodNotAllowed>>, ctl)
            ELSE Handled(<<EndpointNotFound>>, ctl)

(***************************************************************************)
(* sendHttpResponse                                                        *)
(*                                                                         *)
(* A socket is "none" before it is accepted, "open" while connected,       *)
(* "closing" once disconnectFromHost() has been called, and "closed" once  *)
(* it has emitted disconnected().  The server opens every accepted socket *)
(* for reading and writing and the code never calls close(), so every      *)
(* accepted socket is writable.                                            *)
(***************************************************************************)
isWritable(sock) == sock.state # "none"

\* Mutation: a Content-Length set by the handler is kept.
ResponseHeadersKeepLength(response) ==
    LET h0 == response.headers
        fixed == {"Content-Type", "Access-Control-Allow-Origin",
                  "Access-Control-Allow-Methods", "Access-Control-Allow-Headers"}
    IN  [k \in DOMAIN h0 \cup fixed \cup {"Content-Length"} |->
            CASE k = "Content-Length" ->
                    IF k \in DOMAIN h0 THEN h0[k] ELSE ToString(Len(response.body))
              [] k = "Content-Type" ->
                    IF k \in DOMAIN h0 THEN h0[k] ELSE "application/json"
              [] k = "Access-Control-Allow-Origin" -> "*"
              [] k = "Access-Control-Allow-Methods" -> "GET, POST, OPTIONS"
              [] k = "Access-Control-Allow-Headers" -> "Content-Type"
              [] OTHER -> h0[k]]

\* The headers of sendHttpResponse, in the order of its assignments.
ResponseHeaders(response) ==
    LET h0 == response.headers
        h1 == [k \in DOMAIN h0 \cup {"Content-Length"} |->
                  IF k = "Content-Length" THEN ToString(Len(response.body)) ELSE h0[k]]
        h2 == IF "Content-Type" \in DOMAIN h1 THEN h1
              ELSE [k \in DOMAIN h1 \cup {"Content-Type"} |->
                       IF k = "Content-Type" THEN "application/json" ELSE h1[k]]
        cors == {"Access-Control-Allow-Origin", "Access-Control-Allow-Methods",
                 "Access-Control-Allow-Headers"}
    IN  [k \in DOMAIN h2 \cup cors |->
            CASE k = "Access-Control-Allow-Origin" -> "*"
              [] k = "Access-Control-Allow-Methods" -> "GET, POST, OPTIONS"
              [] k = "Access-Control-Allow-Headers" -> "Content-Type"
              [] OTHER -> h2[k]]

\* responseData: the status line, the headers and the body (`json` is the
\* object the body was serialized from).
ResponseData(response) ==
    [statusCode |-> response.statusCode, statusText |-> response.statusText,
     headers |-> ResponseHeaders(response), body |-> response.body,
     json |-> response.json]

\* socket->write(): the bytes reach a socket that is connected or closing.
SocketWrite(sock, bytes) ==
    IF sock.state \in {"open", "closing"}
    THEN [sock EXCEPT !.written = Append(@, bytes)] ELSE sock

\* Mutation: the connection is kept alive after the response.
disconnectFromHostKeepAlive(sock) == sock

\* socket->flush(); socket->disconnectFromHost(): the socket stops reading
\* and is "closing" until it emits disconnected(), which it does as soon as
\* its last byte is written (handleClientDisconnected is that event).
disconnectFromHost(sock) ==
    IF sock.state = "open" THEN [sock EXCEPT !.state = "closing"] ELSE sock

sendHttpResponse(sock, response) ==
    IF ~isWritable(sock) THEN sock
    ELSE disconnectFromHost(SocketWrite(sock, ResponseData(response)))

RECURSIVE SendAll(_, _)
SendAll(sock, sends) ==
    IF sends = <<>> THEN sock
    ELSE SendAll(sendHttpResponse(sock, Head(sends)), Tail(sends))

(***************************************************************************)
(* The bursts of bytes a peer sends                                        *)
(***************************************************************************)
Burst(method, path, headerBlock, body) ==
    method \o <<SP>> \o path \o <<SP, "HTTP/1.1", CR, LF>> \o headerBlock \o body

HostHeader == <<"Host", ":", SP, "localhost", CR, LF>>
BlankLine == <<CR, LF>>

ValueBody(v) == <<"{", QUOTE, "value", QUOTE, ":", SP>> \o v \o <<"}">>

\* The bursts of the interleaving model: one for each branch of the router
\* and of the handlers, one with a "value" that is no number, and one with
\* a one-token request line.
Bursts ==
    {Burst(<<"OPTIONS">>, <<"/", "x">>, HostHeader \o BlankLine, <<>>),
     Burst(<<"GET">>, <<"/", "x">>, HostHeader \o BlankLine, <<>>),
     Burst(<<"GET">>, <<"/", "api">>, HostHeader \o BlankLine, <<>>),
     Burst(<<"GET">>, <<"/", "api", "/", "status">>, HostHeader \o BlankLine, <<>>),
     Burst(<<"GET">>, <<"/", "api", "/", "player", "/", "Channel1">>,
           HostHeader \o BlankLine, <<>>),
     Burst(<<"GET">>, <<"/", "api", "/", "control", "/", "Channel1", "/", "volume">>,
           HostHeader \o BlankLine, <<>>),
     Burst(<<"DELETE">>, <<"/", "api", "/", "control", "/", "Channel1", "/", "volume">>,
           HostHeader \o BlankLine, <<>>),
     Burst(<<"POST">>, <<"/", "api", "/", "control", "/", "Channel1", "/", "volume">>,
           HostHeader \o BlankLine, <<"not-json">>),
     Burst(<<"POST">>, <<"/", "api", "/", "control", "/", "Master", "/", "volume">>,
           HostHeader \o BlankLine, ValueBody(<<ToString(MaxValue + 1)>>)),
     Burst(<<"POST">>, <<"/", "api", "/", "control", "/", "Channel1", "/", "volume">>,
           HostHeader \o BlankLine, <<"{", "}">>),
     Burst(<<"POST">>, <<"/", "api", "/", "control", "/", "Channel1", "/", "volume">>,
           HostHeader \o BlankLine, ValueBody(<<QUOTE, "a", QUOTE>>)),
     <<"OPTIONS", CR, LF>>}
    \cup {Burst(<<"POST">>,
                <<"/", "api", "/", "control", "/", "[", "Channel1", "]", "/", "volume">>,
                HostHeader \o BlankLine, ValueBody(<<ToString(v)>>)) : v \in Values}

\* The request domain of the single-connection model: every method of
\* Methods on every path of Paths, a POST with every body of Bodies on the
\* paths that can reach handleSetControl, and the bursts of ParserBursts.
Methods == {<<"GET">>, <<"POST">>, <<"OPTIONS">>, <<"DELETE">>}

Names == {<<"Channel1">>, <<"Nope">>, <<"a", "%3F", "b">>}
Bracketed(g) == <<"[">> \o g \o <<"]">>
GroupSegments ==
    Names \cup {Bracketed(g) : g \in Names} \cup {<<"%5B", "Channel1", "%5D">>}
ItemSegments == {<<"volume">>, <<"x">>}

\* The segment lists: at most five segments under /api, each from the set
\* of its place, and the same lists with another first segment or none.
SegmentLists ==
    LET S2 == {<<"status">>, <<"player">>, <<"control">>, <<"x">>}
        api == <<"api">>
        UnderApi ==
            {<<api>>} \cup {<<api, b>> : b \in S2}
            \cup {<<api, b, g>> : b \in S2, g \in GroupSegments}
            \cup {<<api, b, g, i>> : b \in S2, g \in GroupSegments, i \in ItemSegments}
            \cup {<<api, b, g, i, <<"x">> >> : b \in S2, g \in GroupSegments,
                                               i \in ItemSegments}
        Short == {l \in UnderApi : Len(l) <= 2 \/ l[3] = <<"[", "Channel1", "]">>}
    IN  UnderApi \cup {<<>>} \cup {Tail(l) : l \in Short}
        \cup {[l EXCEPT ![1] = <<"x">>] : l \in Short}

\* The raw path of a segment list: "plain" /a/b/c, "query" /a/b/c?q,
\* "slashes" //a//b//c/ and "inner" /a/b/c?q/d (a '?' in the third segment
\* when it is not the last); and, for some of the lists, "trailing" /a/b/c/
\* and "slashquery" /a/b/c/?q.
PathStyles == {"plain", "query", "slashes", "inner"}
TrailingStyles == {"trailing", "slashquery"}

RECURSIVE RawPath(_, _, _)
RawPath(segs, style, i) ==
    IF i > Len(segs)
    THEN CASE style = "query" -> <<"?", "q">>
           [] style = "slashes" -> <<"/">>
           [] style = "trailing" -> <<"/">>
           [] style = "slashquery" -> <<"/", "?", "q">>
           [] OTHER -> <<>>
    ELSE (IF style = "slashes" THEN <<"/", "/">> ELSE <<"/">>)
         \o segs[i]
         \o (IF style = "inner" /\ i = 3 /\ Len(segs) > 3 THEN <<"?", "q">> ELSE <<>>)
         \o RawPath(segs, style, i + 1)

PathsOf(lists) == {RawPath(segs, style, 1) : segs \in lists, style \in PathStyles}

\* The lists that are given a path of the trailing styles as well.
TrailingLists ==
    {l \in SegmentLists : Len(l) <= 2 \/ l[3] \in {<<"Channel1">>, Channel1}}

Paths ==
    PathsOf(SegmentLists)
    \cup {RawPath(segs, style, 1) : segs \in TrailingLists, style \in TrailingStyles}

\* The paths with "control" as their second segment.
ControlPaths == PathsOf({l \in SegmentLists : Len(l) >= 2 /\ l[2] = <<"control">>})

Bodies ==
    {<<"not-json">>, <<"[", "]">>, <<"{", "}">>,
     ValueBody(<<QUOTE, "a", QUOTE>>),
     <<"{", QUOTE, "other", QUOTE, ":", "1", "}">>}
    \cup {ValueBody(<<ToString(v)>>) : v \in RequestValues}

Requests ==
    {Burst(m, path, HostHeader \o BlankLine, <<>>) : m \in Methods, path \in Paths}
    \cup {Burst(<<"POST">>, path, HostHeader \o BlankLine, ValueBody(<<"1">>)) :
              path \in Paths}
    \cup {Burst(<<"POST">>, path, HostHeader \o BlankLine, body) :
              path \in ControlPaths, body \in Bodies}

\* The bursts of the listener model.
ListenBursts ==
    {Burst(<<"GET">>, <<"/", "api", "/", "status">>, HostHeader \o BlankLine, <<>>),
     Burst(<<"GET">>, <<"/", "x">>, HostHeader \o BlankLine, <<>>)}

\* Bursts that are no well-formed request: request lines with one token or
\* none, with two spaces, after an empty line; and requests with their body
\* after the request line, after headers without an empty line, after a
\* line of white space, and with empty lines inside the body.
ParserBursts ==
    LET Ch1Volume == <<"/", "api", "/", "control", "/", "Channel1", "/", "volume">>
        Status == <<"/", "api", "/", "status">>
        PostLine == <<"POST", SP>> \o Ch1Volume \o <<SP, "HTTP/1.1">>
        One == ValueBody(<<"1">>)
    IN  {<<"GET">>, <<"OPTIONS">>, <<LF>>, <<CR, LF>>, <<SP, "GET", SP, CR, LF>>,
         <<"OPTIONS", CR, LF, CR, LF>>,
         <<"OPTIONS", CR, LF>> \o HostHeader \o BlankLine,
         Status \o <<CR, LF>>,
         <<"GET", SP, SP>> \o Status \o <<SP, "HTTP/1.1", CR, LF, CR, LF>>,
         <<CR, LF, "GET", SP>> \o Status \o <<SP, "HTTP/1.1", CR, LF, CR, LF>>,
         <<LF>> \o HostHeader \o <<LF, "b">>,
         <<LF, LF, "b">>,
         PostLine \o <<LF>> \o One,
         PostLine \o <<CR, LF>> \o One,
         PostLine \o <<CR, LF>> \o HostHeader \o One,
         PostLine \o <<CR, LF, SP, CR, LF>> \o One,
         PostLine \o <<CR, LF>> \o HostHeader \o BlankLine \o One \o <<LF>>,
         PostLine \o <<CR, LF>> \o HostHeader \o BlankLine
            \o <<"{", QUOTE, "value", QUOTE, ":", LF, CR, LF, "1", "}">>,
         PostLine \o <<CR, LF>> \o HostHeader \o BlankLine \o <<CR, LF>> \o One}

AllBursts == Bursts \cup Requests \cup ParserBursts

\* request = parseHttpRequest(data), for each burst of the model.
Parsed == [data \in AllBursts |-> parseHttpRequest(data)]

(***************************************************************************)
(* The slots of RestApiServer and the events of its collaborators          *)
(***************************************************************************)
Socket(c) == [state |-> conn[c], written |-> <<>>]

Idle(kind, c) == [kind |-> kind, sock |-> c]

\* bool start(quint16 port = 8080)
DefaultPort == 8080

\* The ports start() is called with; 0 asks for a port of the system's choice.
StartPorts == {0, DefaultPort, DefaultPort + 1}

\* m_pServer->serverPort() after listen(LocalHost, port) has succeeded.
serverPort(port) == IF port = 0 THEN {49152, 49153} ELSE {port}

\* bool isRunning() const
isRunning == listening

\* Mutation: the port is recorded before the bind is tried.
startRecordsPortFirst(port) ==
    IF isRunning
    THEN {[result |-> FALSE, listening |-> listening, m_port |-> m_port]}
    ELSE {[result |-> FALSE, listening |-> FALSE, m_port |-> port]}
         \cup {[result |-> TRUE, listening |-> TRUE, m_port |-> p] : p \in serverPort(port)}

\* start(port): what it returns and leaves in the members.  It fails when
\* the server is listening; otherwise listen() fails (the port is in use,
\* or the permission is denied) or binds.
start(port) ==
    IF isRunning
    THEN {[result |-> FALSE, listening |-> listening, m_port |-> m_port]}
    ELSE {[result |-> FALSE, listening |-> FALSE, m_port |-> m_port]}
         \cup {[result |-> TRUE, listening |-> TRUE, m_port |-> p] : p \in serverPort(port)}

\* Mutation: the server closes the sockets it has accepted as well.
stopClosesConnections ==
    [listening |-> FALSE,
     conn |-> [c \in Conns |-> IF conn[c] \in {"open", "closing"} THEN "closed" ELSE conn[c]]]

\* stop(): m_pServer->close() when the server is listening; the accepted
\* sockets are not touched.
stop == [listening |-> IF isRunning THEN FALSE ELSE listening, conn |-> conn]

\* A call of start(port) by the application.
StartCalled(ports) ==
    \E port \in ports : \E outcome \in start(port) :
        /\ listening' = outcome.listening
        /\ m_port' = outcome.m_port
        /\ ev' = [kind |-> "start", sock |-> 0, port |-> port, result |-> outcome.result]
        /\ UNCHANGED <<conn, responses, served, released, ctl, tracks>>

\* A call of stop() by the application.
StopCalled ==
    /\ listening' = stop.listening
    /\ conn' = stop.conn
    /\ ev' = Idle("stop", 0)
    /\ UNCHANGED <<m_port, responses, served, released, ctl, tracks>>

\* handleNewConnection on newConnection(), which a listening server emits:
\* the next pending connection becomes socket c, the first unused one.
handleNewConnection(c) ==
    /\ isRunning
    /\ conn[c] = "none"
    /\ \A d \in 1..(c - 1) : conn[d] # "none"
    /\ conn' = [conn EXCEPT ![c] = "open"]
    /\ ev' = Idle("accept", c)
    /\ UNCHANGED <<listening, m_port, responses, served, released, ctl, tracks>>

\* handleClientData on readyRead() of socket c, which a connected socket
\* emits; `data` is what readAll() returns, one of the bursts `sent` that
\* the peer may have sent.
handleClientData(c, sent) ==
    /\ conn[c] = "open"
    /\ \E data \in sent :
        IF data = <<>>
        THEN /\ ev' = Idle("empty", c)
             /\ UNCHANGED <<listening, m_port, conn, responses, served, released,
                            ctl, tracks>>
        ELSE \E handled \in handleRequest(Parsed[data]) :
                LET sock == SendAll(Socket(c), handled.sends)
                IN  /\ conn' = [conn EXCEPT ![c] = sock.state]
                    /\ responses' = [responses EXCEPT ![c] = @ + Len(sock.written)]
                    /\ served' = [served EXCEPT ![c] = TRUE]
                    /\ ctl' = handled.ctl
                    /\ ev' = [kind |-> "data", sock |-> c, data |-> data,
                              request |-> Parsed[data], written |-> sock.written]
                    /\ UNCHANGED <<listening, m_port, released, tracks>>

\* Mutation: the socket is not released (no deleteLater()).
handleClientDisconnectedLeaks(c) ==
    /\ conn[c] \in {"open", "closing"}
    /\ conn' = [conn EXCEPT ![c] = "closed"]
    /\ ev' = Idle("disconnected", c)
    /\ UNCHANGED <<listening, m_port, responses, served, released, ctl, tracks>>

\* handleClientDisconnected on disconnected() of socket c: the peer dropped
\* the connection, or the last bytes of a closing socket were written.
handleClientDisconnected(c) ==
    /\ conn[c] \in {"open", "closing"}
    /\ conn' = [conn EXCEPT ![c] = "closed"]
    /\ released' = [released EXCEPT ![c] = @ + 1]
    /\ ev' = Idle("disconnected", c)
    /\ UNCHANGED <<listening, m_port, responses, served, ctl, tracks>>

\* Another part of the application writes a control.
ControlChanged(key, value) ==
    /\ key \in DOMAIN ctl
    /\ ctl[key] # value
    /\ ctl' = [ctl EXCEPT ![key] = value]
    /\ ev' = Idle("control", 0)
    /\ UNCHANGED <<listening, m_port, conn, responses, served, released, tracks>>

\* A player loads or ejects its track.
TrackChanged(group) ==
    /\ tracks' = IF group \in tracks THEN tracks \ {group} ELSE tracks \cup {group}
    /\ ev' = Idle("track", 0)
    /\ UNCHANGED <<listening, m_port, conn, responses, served, released, ctl>>

\* The control planes the application can have built.
ControlPlanes == UNION {[K -> Values] : K \in SUBSET CtlKeys}

Init ==
    /\ listening = FALSE
    /\ m_port = 0
    /\ conn = [c \in Conns |-> "none"]
    /\ responses = [c \in Conns |-> 0]
    /\ served = [c \in Conns |-> FALSE]
    /\ released = [c \in Conns |-> 0]
    /\ ctl \in ControlPlanes
    /\ tracks \in SUBSET Players
    /\ ev = Idle("init", 0)

Next ==
    \/ StartCalled({DefaultPort})
    \/ StopCalled
    \/ \E c \in Conns : handleNewConnection(c)
    \/ \E c \in Conns : handleClientData(c, Bursts \cup {<<>>})
    \/ \E c \in Conns : handleClientDisconnected(c)
    \/ \E key \in CtlKeys, value \in Values : ControlChanged(key, value)
    \/ \E group \in Players : TrackChanged(group)

Spec == Init /\ [][Next]_vars

\* The listener model: every port of StartPorts, a few bursts.
NextListen ==
    \/ StartCalled(StartPorts)
    \/ StopCalled
    \/ \E c \in Conns : handleNewConnection(c)
    \/ \E c \in Conns : handleClientData(c, ListenBursts)
    \/ \E c \in Conns : handleClientDisconnected(c)

SpecListen == Init /\ [][NextListen]_vars

\* The single-connection model: one socket, one burst of the request domain.
NextOne ==
    \/ StartCalled({DefaultPort})
    \/ handleNewConnection(1)
    \/ handleClientData(1, AllBursts)
    \/ handleClientDisconnected(1)

SpecOne == Init /\ [][NextOne]_vars

(***************************************************************************)
(* sendHttpResponse on its own: every response a handler builds, with      *)
(* every set of headers a handler could have put in HttpResponse::headers. *)
(***************************************************************************)
HandlerHeaderValues ==
    [k \in {"Content-Type", "Content-Length", "Access-Control-Allow-Origin", "X-Mixxx"} |->
        CASE k = "Content-Type" -> "text/plain"
          [] k = "Content-Length" -> "999"
          [] k = "Access-Control-Allow-Origin" -> "null"
          [] k = "X-Mixxx" -> "1"]

HandlerHeaders ==
    {[k \in K |-> HandlerHeaderValues[k]] : K \in SUBSET DOMAIN HandlerHeaderValues}

SendResponse(c) ==
    /\ conn[c] = "open"
    /\ \E data \in Bursts, headers \in HandlerHeaders :
       \E handled \in handleRequest(Parsed[data]) :
          LET response == [handled.sends[1] EXCEPT !.headers = headers]
              sock == sendHttpResponse(Socket(c), response)
          IN  /\ conn' = [conn EXCEPT ![c] = sock.state]
              /\ responses' = [responses EXCEPT ![c] = @ + Len(sock.written)]
              /\ ev' = [kind |-> "send", sock |-> c, response |-> response,
                        written |-> sock.written]
              /\ UNCHANGED <<listening, m_port, served, released, ctl, tracks>>

NextSend ==
    \/ StartCalled({DefaultPort})
    \/ handleNewConnection(1)
    \/ SendResponse(1)
    \/ handleClientDisconnected(1)

SpecSend == Init /\ [][NextSend]_vars

(***************************************************************************)
(* Properties                                                              *)
(***************************************************************************)
Range(f) == {f[x] : x \in DOMAIN f}

\* The bytes written by the event handled last.
Written == IF ev.kind \in {"data", "send"} THEN ev.written ELSE <<>>

\* C1: on every socket on which handleClientData has read a non-empty burst,
\* exactly one response has been written and the socket has been closed by
\* the server, in the very step that wrote the response; no socket has more
\* than one response, and no socket is still open after its response.
C1_OneResponseThenClose ==
    /\ \A c \in Conns :
          /\ responses[c] <= 1
          /\ served[c] => responses[c] = 1 /\ conn[c] \in {"closing", "closed"}
          /\ responses[c] = 1 => served[c] /\ conn[c] # "open"
    /\ ev.kind = "data" => Len(ev.written) = 1 /\ conn[ev.sock] = "closing"

\* Two sockets were open together; both were served, one is closed already.
C1_Witness ==
    /\ ev.kind = "data" /\ ev.sock = 1
    /\ served[1] /\ served[2]
    /\ conn[2] = "closed" /\ conn[1] = "closing"
    /\ responses[1] = 1 /\ responses[2] = 1

\* C2: every response written carries Content-Length equal to the length of
\* its body, the three CORS headers with their fixed values, and the
\* Content-Type the handler set, or application/json when it set none.
C2_ResponseHeaders ==
    \A i \in 1..Len(Written) :
        LET w == Written[i]
            set == IF ev.kind = "send" THEN ev.response.headers ELSE [k \in {} |-> ""]
        IN  /\ {"Content-Length", "Content-Type", "Access-Control-Allow-Origin",
                "Access-Control-Allow-Methods", "Access-Control-Allow-Headers"}
                   \subseteq DOMAIN w.headers
            /\ w.headers["Content-Length"] = ToString(Len(w.body))
            /\ w.headers["Access-Control-Allow-Origin"] = "*"
            /\ w.headers["Access-Control-Allow-Methods"] = "GET, POST, OPTIONS"
            /\ w.headers["Access-Control-Allow-Headers"] = "Content-Type"
            /\ w.headers["Content-Type"] =
                  IF "Content-Type" \in DOMAIN set THEN set["Content-Type"]
                  ELSE "application/json"

\* A handler that set its own Content-Type, Content-Length and Allow-Origin
\* on a response with a body.
C2_Witness ==
    /\ ev.kind = "send"
    /\ {"Content-Type", "Content-Length", "Access-Control-Allow-Origin"}
          \subseteq DOMAIN ev.response.headers
    /\ Len(ev.written) = 1
    /\ ev.written[1].body # <<>>
    /\ ev.written[1].statusCode = 200

\* The event handled last is a request with this method.
Handling(method) == ev.kind = "data" /\ ev.request.method = method

\* The path segments of the request handled last, as the router sees them.
Segments == PathParts(ev.request.path)

\* The members of the JSON object in the body of the response written.
Members == ev.written[1].json.v

\* C3: a request whose method is OPTIONS is answered 204 with an empty body
\* whatever its path is, and the step leaves the control plane as it was.
C3_Options ==
    [][(ev'.kind = "data" /\ ev'.request.method = <<"OPTIONS">>) =>
          /\ Len(ev'.written) = 1
          /\ ev'.written[1].statusCode = 204
          /\ ev'.written[1].statusText = "No Content"
          /\ ev'.written[1].body = <<>>
          /\ ctl' = ctl]_vars

\* OPTIONS on the path of a control that exists.
C3_Witness ==
    /\ Handling(<<"OPTIONS">>)
    /\ Segments = <<<<"api">>, <<"control">>, Channel1, <<"volume">> >>
    /\ ConfigKey(Channel1, <<"volume">>) \in DOMAIN ctl
    /\ ev.written[1].statusCode = 204

\* C4: a request whose method is not OPTIONS and whose first path segment is
\* not "api", or whose path has no segment, is answered 404 with a JSON
\* object holding "error" and "message".
C4_NotUnderApi ==
    (ev.kind = "data" /\ ev.request.method # <<"OPTIONS">>
        /\ (Segments = <<>> \/ Segments[1] # <<"api">>)) =>
          /\ Len(ev.written) = 1
          /\ ev.written[1].statusCode = 404
          /\ ev.written[1].json.t = "obj"
          /\ DOMAIN Members = {"error", "message"}
          /\ ev.written[1].body = toJson(ev.written[1].json)

\* A POST on a path without any segment.
C4_Witness ==
    /\ Handling(<<"POST">>)
    /\ Segments = <<>>
    /\ ev.written[1].statusCode = 404

\* GET /api/control/{group}/{item}
IsControlRequest(method) ==
    /\ Handling(method)
    /\ Len(Segments) >= 4
    /\ Segments[1] = <<"api">>
    /\ Segments[2] = <<"control">>

RequestedGroup == EnsureBrackets(fromPercentEncoding(Segments[3]))
RequestedItem == fromPercentEncoding(Segments[4])
RequestedKey == ConfigKey(RequestedGroup, RequestedItem)

\* C5: GET /api/control/{group}/{item} is answered 200 with the group, the
\* item and the value the control plane holds when the control exists, and
\* 404 with "error" and the same group and item when it does not.
C5_GetControl ==
    IsControlRequest(<<"GET">>) =>
        /\ Len(ev.written) = 1
        /\ ev.written[1].json.t = "obj"
        /\ ev.written[1].body = toJson(ev.written[1].json)
        /\ IF RequestedKey \in DOMAIN ctl
           THEN /\ ev.written[1].statusCode = 200
                /\ DOMAIN Members = {"group", "item", "value"}
                /\ Members["value"] = JNum(ctl[RequestedKey])
           ELSE /\ ev.written[1].statusCode = 404
                /\ DOMAIN Members = {"error", "group", "item"}
        /\ Members["group"] = JStr(RequestedGroup)
        /\ Members["item"] = JStr(RequestedItem)

\* The group was given without brackets and the control holds a value that
\* is not 0.
C5_Witness ==
    /\ IsControlRequest(<<"GET">>)
    /\ Segments[3] = <<"Channel1">>
    /\ RequestedKey \in DOMAIN ctl
    /\ ctl[RequestedKey] > 0
    /\ ev.written[1].statusCode = 200

\* The body of the request handled last, without its white space.
BodyAtoms == SelectSeq(ev.request.body, LAMBDA a : a \notin Whitespace)

\* The body is {"value": <number>}.
NumberBody(v) == <<"{", QUOTE, "value", QUOTE, ":", ToString(v), "}">>
IsValueBody == \E v \in RequestValues : BodyAtoms = NumberBody(v)
BodyValue == CHOOSE v \in RequestValues : BodyAtoms = NumberBody(v)

\* C6: a POST /api/control/{group}/{item} with the body {"value": <number>}
\* on a control that exists is answered, whatever was handled before it on
\* other sockets, 200 with "success" true and "value" equal to the value the
\* control plane holds when the handler returns.
C6_SetControlReadBack ==
    (IsControlRequest(<<"POST">>) /\ IsValueBody /\ RequestedKey \in DOMAIN ctl) =>
        /\ Len(ev.written) = 1
        /\ ev.written[1].statusCode = 200
        /\ ev.written[1].json.t = "obj"
        /\ DOMAIN Members = {"success", "group", "item", "value"}
        /\ Members["success"] = JBool(TRUE)
        /\ Members["value"] = JNum(ctl[RequestedKey])
        /\ ev.written[1].body = toJson(ev.written[1].json)

\* A request on the second socket, after the first one was served, asks for
\* a value the control plane does not take: the response holds another one.
C6_Witness ==
    /\ IsControlRequest(<<"POST">>) /\ IsValueBody /\ RequestedKey \in DOMAIN ctl
    /\ ev.sock = 2 /\ served[1]
    /\ ev.written[1].statusCode = 200
    /\ Members["value"] # JNum(BodyValue)

\* C7: a POST /api/control/{group}/{item} whose body is not JSON, or is JSON
\* but no object, is answered 400 "Invalid JSON body..."; one whose body is an
\* object without "value" is answered 400 "Missing 'value' field..."; neither
\* changes the control plane.
C7_BadBody ==
    [][LET req == ev'.request
           parts == PathParts(req.path)
           body == SelectSeq(req.body, LAMBDA a : a \notin Whitespace)
           invalid == body \in {<<"not-json">>, <<"[", "]">>}
           missing == body \in {<<"{", "}">>, <<"{", QUOTE, "other", QUOTE, ":", "1", "}">>}
       IN  (ev'.kind = "data" /\ req.method = <<"POST">> /\ Len(parts) >= 4
               /\ parts[1] = <<"api">> /\ parts[2] = <<"control">>
               /\ (invalid \/ missing)) =>
             /\ Len(ev'.written) = 1
             /\ ev'.written[1].statusCode = 400
             /\ ev'.written[1].json =
                   JObj([k \in {"error"} |->
                           JStr(<<IF invalid THEN InvalidJsonBody ELSE MissingValueField>>)])
             /\ ev'.written[1].body = toJson(ev'.written[1].json)
             /\ ctl' = ctl]_vars

\* A JSON array sent to a control that exists, and an object without
\* "value" sent to one that does not.
C7_Witness ==
    /\ IsControlRequest(<<"POST">>)
    /\ ev.written[1].statusCode = 400
    /\ \/ BodyAtoms = <<"[", "]">> /\ RequestedKey \in DOMAIN ctl
       \/ BodyAtoms = <<"{", "}">> /\ RequestedKey \notin DOMAIN ctl

\* GET /api/player/{group}
IsPlayerRequest ==
    /\ Handling(<<"GET">>)
    /\ Len(Segments) >= 3
    /\ Segments[1] = <<"api">>
    /\ Segments[2] = <<"player">>

\* C8: GET /api/player/{group} for a group that has no track loaded and
\* none of the thirteen playback controls is answered 404 with the body
\* {error: "Player not found", group: <the group in brackets>}.
C8_PlayerNotFound ==
    (/\ IsPlayerRequest
     /\ RequestedGroup \notin tracks
     /\ \A item \in PlaybackItems : ConfigKey(RequestedGroup, <<item>>) \notin DOMAIN ctl) =>
        /\ Len(ev.written) = 1
        /\ ev.written[1].statusCode = 404
        /\ ev.written[1].json =
              JObj([k \in {"error", "group"} |->
                      IF k = "error" THEN JStr(<<"Player not found">>)
                      ELSE JStr(RequestedGroup)])

\* The requests under /api/control and /api/player whose group is a name
\* without brackets, each with the request that differs from it only in
\* having the group in brackets.
UnbracketedLists ==
    {l \in SegmentLists :
        /\ Len(l) >= 3
        /\ l[1] = <<"api">>
        /\ l[2] \in {<<"control">>, <<"player">>}
        /\ l[3] \in Names}

TwinPairs ==
    LET Pair(m, l, style, body) ==
            <<Burst(m, RawPath(l, style, 1), HostHeader \o BlankLine, body),
              Burst(m, RawPath([l EXCEPT ![3] = Bracketed(l[3])], style, 1),
                    HostHeader \o BlankLine, body)>>
        Styles == {"plain", "query", "slashes"}
    IN  {Pair(m, l, style, <<>>) : m \in Methods, l \in UnbracketedLists, style \in Styles}
        \cup {Pair(<<"POST">>, l, style, body) :
                 l \in {u \in UnbracketedLists : u[2] = <<"control">>},
                 style \in Styles, body \in Bodies}

Twin == [data \in {p[1] : p \in TwinPairs} |-> (CHOOSE p \in TwinPairs : p[1] = data)[2]]

\* C9: a request to /api/control/g/item or /api/player/g, for a group name g
\* that does not start with '[', has the outcomes of the request with [g] in
\* its place in the same state: the same responses and the same control
\* plane afterwards, and the step taken is one of them; wrapping a group
\* that was wrapped changes nothing.
C9_BracketsOptional ==
    [][(ev'.kind = "data" /\ ev'.data \in DOMAIN Twin) =>
          LET twin == handleRequest(Parsed[Twin[ev'.data]])
              group == EnsureBrackets(fromPercentEncoding(PathParts(ev'.request.path)[3]))
          IN  /\ handleRequest(Parsed[ev'.data]) = twin
              /\ \E h \in twin :
                    /\ h.ctl = ctl'
                    /\ ev'.written = [i \in 1..Len(h.sends) |-> ResponseData(h.sends[i])]
              /\ group[1] = "[" /\ group[Len(group)] = "]"
              /\ EnsureBrackets(group) = group]_vars

\* A write through /api/control/Channel1/volume changed the control
\* ([Channel1], volume).
C9_Witness ==
    /\ IsControlRequest(<<"POST">>)
    /\ ev.data \in DOMAIN Twin
    /\ Segments[3] = <<"Channel1">>
    /\ ev.written[1].statusCode = 200
    /\ RequestedKey = ConfigKey(Channel1, <<"volume">>)
    /\ Members["value"] = JNum(BodyValue)

\* C10: GET /api/status is answered 200; "players" has one entry for each
\* loaded track and no other, and "master" has the four keys volume,
\* balance, headVolume and headMix, each null when the [Master] control does
\* not exist and its value otherwise.
C10_Status ==
    (Handling(<<"GET">>) /\ Len(Segments) >= 2 /\ Segments[1] = <<"api">>
        /\ Segments[2] = <<"status">>) =>
        /\ Len(ev.written) = 1
        /\ ev.written[1].statusCode = 200
        /\ ev.written[1].json.t = "obj"
        /\ ev.written[1].body = toJson(ev.written[1].json)
        /\ DOMAIN Members = {"players", "master"}
        /\ LET players == Members["players"].v
               master == Members["master"].v
           IN  /\ Members["players"].t = "arr"
               /\ Len(players) = Cardinality(tracks)
               /\ {players[i].v["group"] : i \in 1..Len(players)} =
                     {JStr(group) : group \in tracks}
               /\ Members["master"].t = "obj"
               /\ DOMAIN master = {"volume", "balance", "headVolume", "headMix"}
               /\ \A k \in DOMAIN master :
                     master[k] = IF ConfigKey(Master, <<k>>) \in DOMAIN ctl
                                 THEN JNum(ctl[ConfigKey(Master, <<k>>)]) ELSE JNull

\* One of the two players has a track loaded and [Master] volume exists.
C10_Witness ==
    /\ Handling(<<"GET">>) /\ Len(Segments) >= 2 /\ Segments[1] = <<"api">>
    /\ Segments[2] = <<"status">>
    /\ Cardinality(tracks) = 1
    /\ ConfigKey(Master, <<"volume">>) \in DOMAIN ctl
    /\ ev.written[1].statusCode = 200

\* The segments of the path of the request handled last: the parts of the
\* path between its slashes that are not empty, the query left out.
NonEmptySegments == SelectSeq(Segments, LAMBDA part : part # <<>>)

\* The request handled last is under /api and its method is none of GET,
\* POST and OPTIONS.
IsOtherMethodUnderApi ==
    /\ ev.kind = "data"
    /\ ev.request.method \notin {<<"GET">>, <<"POST">>, <<"OPTIONS">>}
    /\ Len(NonEmptySegments) >= 2
    /\ NonEmptySegments[1] = <<"api">>

\* C11: a request under /api/control with at least four path segments and a
\* method that is none of GET, POST and OPTIONS is answered 405 "Method Not
\* Allowed", whether the control exists or not; with such a method every
\* other endpoint under /api (status, player, control with fewer than four
\* segments, an unknown name) is answered 404.
C11_MethodNotAllowed ==
    IsOtherMethodUnderApi =>
        /\ Len(ev.written) = 1
        /\ ev.written[1].body = toJson(ev.written[1].json)
        /\ IF NonEmptySegments[2] = <<"control">> /\ Len(NonEmptySegments) >= 4
           THEN /\ ev.written[1].statusCode = 405
                /\ ev.written[1].statusText = "Method Not Allowed"
                /\ ev.written[1].json =
                      JObj([k \in {"error"} |-> JStr(<<"Method Not Allowed">>)])
           ELSE /\ ev.written[1].statusCode = 404
                /\ ev.written[1].statusText = "Not Found"

\* C12: a request with a method other than OPTIONS whose path has "api" as
\* its only non-empty segment is answered 400 "Bad Request" with a JSON
\* object holding "error".  The test comes after the one for the prefix (a
\* path without a segment, or with one other segment, is answered 404) and
\* before the choice of the endpoint (no path with two segments or more is
\* answered with this body).
C12_ApiAlone ==
    (ev.kind = "data" /\ ev.request.method # <<"OPTIONS">>) =>
        /\ Len(ev.written) = 1
        /\ NonEmptySegments = << <<"api">> >> =>
              /\ ev.written[1].statusCode = 400
              /\ ev.written[1].statusText = "Bad Request"
              /\ ev.written[1].json = JObj([k \in {"error"} |-> JStr(<<"Bad Request">>)])
              /\ ev.written[1].body = toJson(ev.written[1].json)
        /\ (Len(NonEmptySegments) < 2 /\ NonEmptySegments # << <<"api">> >>) =>
              ev.written[1].statusCode = 404
        /\ Len(NonEmptySegments) >= 2 =>
              ev.written[1].json # JObj([k \in {"error"} |-> JStr(<<"Bad Request">>)])

\* The requests whose path ends in the query ?q, each with the request that
\* differs from it only in not having the query.
QueryPairs ==
    LET Pair(m, l, with, without, body) ==
            <<Burst(m, RawPath(l, with, 1), HostHeader \o BlankLine, body),
              Burst(m, RawPath(l, without, 1), HostHeader \o BlankLine, body)>>
        Of(lists, with, without) ==
            {Pair(m, l, with, without, <<>>) : m \in Methods, l \in lists}
            \cup {Pair(<<"POST">>, l, with, without, ValueBody(<<"1">>)) : l \in lists}
    IN  Of(SegmentLists, "query", "plain") \cup Of(TrailingLists, "slashquery", "trailing")

WithoutQuery ==
    [data \in {p[1] : p \in QueryPairs} |-> (CHOOSE p \in QueryPairs : p[1] = data)[2]]

\* The GET requests for a control with ?q at the end of the group segment,
\* each with that segment.
InnerQueryGroup ==
    LET lists == {l \in SegmentLists : Len(l) >= 4 /\ l[1] = <<"api">>
                                        /\ l[2] = <<"control">>}
    IN  [data \in {Burst(<<"GET">>, RawPath(l, "inner", 1), HostHeader \o BlankLine, <<>>) :
                      l \in lists} |->
            (CHOOSE l \in lists :
                data = Burst(<<"GET">>, RawPath(l, "inner", 1), HostHeader \o BlankLine,
                             <<>>))[3] \o <<"?", "q">>]

\* C17: a request whose path ends in a query without '/' has the outcomes of
\* the request without the query in the same state (the same responses and
\* the same control plane afterwards), and a '?' in the group segment of
\* /api/control/{group}/{item} is part of the group that is looked up.
C17_QueryStrippedFromLastSegment ==
    [][/\ (ev'.kind = "data" /\ ev'.data \in DOMAIN WithoutQuery) =>
             LET plain == handleRequest(Parsed[WithoutQuery[ev'.data]])
             IN  /\ handleRequest(Parsed[ev'.data]) = plain
                 /\ \E h \in plain :
                       /\ h.ctl = ctl'
                       /\ ev'.written = [i \in 1..Len(h.sends) |-> ResponseData(h.sends[i])]
       /\ (ev'.kind = "data" /\ ev'.data \in DOMAIN InnerQueryGroup) =>
             /\ Len(ev'.written) = 1
             /\ ev'.written[1].statusCode = 404
             /\ ev'.written[1].json.v["group"] =
                   JStr(EnsureBrackets(fromPercentEncoding(InnerQueryGroup[ev'.data])))]_vars

\* C13: start fails and leaves the listening state and the recorded port as
\* they were when the server is listening already or the bind fails; stop on
\* a server that is not listening changes nothing; the server is not running
\* at first, and isRunning() is true after a step exactly when the step is a
\* successful start, or is no stop and isRunning() was true before it.
C13_StartStop ==
    /\ ~isRunning
    /\ [][/\ (ev'.kind = "start" /\ listening) => ~ev'.result
          /\ (ev'.kind = "start" /\ ~ev'.result) =>
                listening' = listening /\ m_port' = m_port
          /\ (ev'.kind = "stop" /\ ~listening) =>
                UNCHANGED <<listening, m_port, conn, responses, served, released,
                            ctl, tracks>>
          /\ listening' = IF ev'.kind = "start" /\ ev'.result THEN TRUE
                          ELSE IF ev'.kind = "stop" THEN FALSE
                          ELSE listening]_vars

\* A start that succeeds on a server that was stopped: a socket was accepted
\* while it listened before, and the port of the system's choice is recorded.
C13_Witness ==
    /\ ev.kind = "start" /\ ev.result /\ ev.port = 0
    /\ isRunning
    /\ m_port \in serverPort(0)
    /\ conn[1] = "open"

\* The status each burst of Bursts is answered with.
ExpectedStatus(data) ==
    LET Get(path) == Burst(<<"GET">>, path, HostHeader \o BlankLine, <<>>)
        Ch1Volume == <<"/", "api", "/", "control", "/", "Channel1", "/", "volume">>
        exists(group) == ConfigKey(group, <<"volume">>) \in DOMAIN ctl
    IN  CASE data = Burst(<<"OPTIONS">>, <<"/", "x">>, HostHeader \o BlankLine, <<>>) -> 204
          [] data = Get(<<"/", "x">>) -> 404
          [] data = Get(<<"/", "api">>) -> 400
          [] data = Get(<<"/", "api", "/", "status">>) -> 200
          [] data = Get(<<"/", "api", "/", "player", "/", "Channel1">>) -> 200
          [] data = Get(Ch1Volume) -> IF exists(Channel1) THEN 200 ELSE 404
          [] data = Burst(<<"DELETE">>, Ch1Volume, HostHeader \o BlankLine, <<>>) -> 405
          [] data = Burst(<<"POST">>, Ch1Volume, HostHeader \o BlankLine, <<"not-json">>) -> 400
          [] data = Burst(<<"POST">>, Ch1Volume, HostHeader \o BlankLine, <<"{", "}">>) -> 400
          [] data = <<"OPTIONS", CR, LF>> -> 404
          [] data[1] = "POST" /\ "Master" \in Range(data) ->
                IF exists(Master) THEN 200 ELSE 404
          [] OTHER -> IF exists(Channel1) THEN 200 ELSE 404

\* C14: no socket is accepted while the server is not listening; stop()
\* leaves every accepted socket as it is; and a burst that arrives on a
\* socket after stop() is parsed and answered with the one response it is
\* answered with on a listening server, after which the socket is closed.
C14_StopKeepsConnections ==
    [][/\ ev'.kind = "accept" => listening
       /\ ev'.kind = "stop" =>
             UNCHANGED <<conn, responses, served, released, ctl, tracks>>
       /\ (ev'.kind = "data" /\ ~listening) =>
             /\ conn[ev'.sock] = "open"
             /\ ev'.request = parseHttpRequest(ev'.data)
             /\ Len(ev'.written) = 1
             /\ ev'.written[1].statusCode = ExpectedStatus(ev'.data)
             /\ responses'[ev'.sock] = 1
             /\ conn'[ev'.sock] = "closing"]_vars

\* Two sockets were accepted before stop(); the first is answered after it
\* while the second is still open.
C14_Witness ==
    /\ ev.kind = "data" /\ ev.sock = 1
    /\ ~isRunning
    /\ ev.written[1].statusCode = 200
    /\ conn[1] = "closing" /\ conn[2] = "open"

\* C15: a POST /api/control/{group}/{item} whose body is a JSON object with
\* a "value" that is no number (here a string) leaves the value of the
\* control (group, item) as it was.
C15_NonNumericValueNotWritten ==
    [][LET parts == PathParts(ev'.request.path)
           body == SelectSeq(ev'.request.body, LAMBDA a : a \notin Whitespace)
           key == ConfigKey(EnsureBrackets(fromPercentEncoding(parts[3])),
                            fromPercentEncoding(parts[4]))
       IN  (/\ ev'.kind = "data" /\ ev'.request.method = <<"POST">>
            /\ Len(parts) >= 4 /\ parts[1] = <<"api">> /\ parts[2] = <<"control">>
            /\ body = <<"{", QUOTE, "value", QUOTE, ":", QUOTE, "a", QUOTE, "}">>
            /\ key \in DOMAIN ctl) =>
              ctl'[key] = ctl[key]]_vars

\* The tokens of the first line of the burst handled last.
RequestLineTokens ==
    LET end == IndexOf(ev.data, LF)
        line == IF end >= 0 THEN Left(ev.data, end) ELSE ev.data
    IN  Split(Trimmed(line), SP)

NotFoundUnderApi ==
    JObj([k \in {"error", "message"} |->
            IF k = "error" THEN JStr(<<"Not Found">>)
            ELSE JStr(<<"API endpoints are under /api">>)])

\* C16: every non-empty burst is parsed into a request and answered; when
\* its first line has fewer than two tokens separated by a space, the method
\* and the path of the request are empty and the answer is the 404 for a
\* path outside /api, also when the one token is OPTIONS.
C16_ParserNeverFails ==
    ev.kind = "data" =>
        /\ ev.data # <<>>
        /\ DOMAIN ev.request = {"method", "path", "headers", "body"}
        /\ Len(ev.written) = 1
        /\ Len(RequestLineTokens) < 2 =>
              /\ ev.request.method = <<>>
              /\ ev.request.path = <<>>
              /\ ev.written[1].statusCode = 404
              /\ ev.written[1].json = NotFoundUnderApi
              /\ conn[ev.sock] = "closing"

\* The burst is the one token OPTIONS, followed by a header block.
C16_Witness ==
    /\ ev.kind = "data"
    /\ RequestLineTokens = << <<"OPTIONS">> >>
    /\ DOMAIN ev.request.headers # {}
    /\ ev.written[1].statusCode = 404

\* The lines of a burst, cut at its line feeds: line j lies between the
\* line feeds j - 1 and j.
LineFeeds(data) == {p \in 1..Len(data) : data[p] = LF}
LineCount(data) == Cardinality(LineFeeds(data)) + 1
LineFeed(data, j) ==
    IF j = 0 THEN 0
    ELSE IF j >= LineCount(data) THEN Len(data) + 1
    ELSE CHOOSE p \in LineFeeds(data) :
            Cardinality({q \in LineFeeds(data) : q <= p}) = j
Line(data, j) == SubSeq(data, LineFeed(data, j - 1) + 1, LineFeed(data, j) - 1)
Rest(data, j) == SubSeq(data, LineFeed(data, j) + 1, Len(data))

\* The lines after the request line that hold white space only.
EmptyLines(data) ==
    {j \in 2..LineCount(data) :
        \A i \in 1..Len(Line(data, j)) : Line(data, j)[i] \in Whitespace}

\* The body each burst is to be parsed into: the bytes after the first empty
\* line, or after the request line when no line is empty.
BodyOf ==
    [data \in AllBursts |->
        IF EmptyLines(data) # {}
        THEN Rest(data, CHOOSE j \in EmptyLines(data) : \A k \in EmptyLines(data) : j <= k)
        ELSE Rest(data, 1)]

\* The lines of a burst without an empty line that have a colon after their
\* first byte, as pairs of a name in lower case and a value.
HeadersInBody ==
    [data \in AllBursts |->
        IF EmptyLines(data) # {} THEN {}
        ELSE {<<ToLower(Trimmed(Left(line, IndexOf(line, ":")))),
                Trimmed(Mid(line, IndexOf(line, ":") + 1))>> :
                 line \in {l \in {Trimmed(Line(data, j)) : j \in 2..LineCount(data)} :
                              IndexOf(l, ":") > 0}}]

\* The bursts that are a request line directly followed by {"value": <number>}.
JsonAfterRequestLine ==
    {data \in AllBursts :
        /\ LineCount(data) = 2
        /\ \E v \in RequestValues :
              SelectSeq(Line(data, 2), LAMBDA a : a \notin Whitespace) = NumberBody(v)}

\* C20: when a line after the request line of the burst is empty, the body
\* of the request is the bytes after the first such line; when none is, the
\* body is the bytes after the request line, and each of these lines with a
\* colon after its first byte is a header (under its name in lower case) as
\* well, so that a POST whose request line is directly followed by
\* {"value": <number>} is answered as a write of that number.
C20_Body ==
    ev.kind = "data" =>
        /\ ev.request.body = BodyOf[ev.data]
        /\ \A h \in HeadersInBody[ev.data] :
              h[1] \in DOMAIN ev.request.headers /\ ev.request.headers[h[1]] = h[2]
        /\ (/\ IsControlRequest(<<"POST">>)
            /\ ev.data \in JsonAfterRequestLine
            /\ RequestedKey \in DOMAIN ctl) =>
              /\ ev.written[1].statusCode = 200
              /\ Members["value"] = JNum(ctl[RequestedKey])

\* A POST whose request line is directly followed by {"value": 1}: the line
\* is a header and the body, and the write is answered 200.
C20_Witness ==
    /\ IsControlRequest(<<"POST">>)
    /\ ev.data \in JsonAfterRequestLine
    /\ ev.request.body = ValueBody(<<"1">>)
    /\ DOMAIN ev.request.headers = {<<"{", QUOTE, "value", QUOTE>>}
    /\ ev.written[1].statusCode = 200
    /\ Members["value"] = JNum(1)

\* C18: a socket has been released once when it is disconnected and not at
\* all before, whether it was closed after its response or dropped by the
\* peer before any burst; its release is the step that handles its
\* disconnected(); and no burst is parsed or answered on a released socket.
C18_ReleasedOnce ==
    /\ [](\A c \in Conns :
             /\ released[c] = IF conn[c] = "closed" THEN 1 ELSE 0
             /\ (ev.kind = "disconnected" /\ ev.sock = c) => conn[c] = "closed")
    /\ [][/\ \A c \in Conns :
                /\ released'[c] # released[c] =>
                      /\ ev'.kind = "disconnected" /\ ev'.sock = c
                      /\ conn[c] \in {"open", "closing"}
                /\ released[c] > 0 =>
                      /\ responses'[c] = responses[c]
                      /\ served'[c] = served[c]
                      /\ conn'[c] = conn[c]
          /\ ev'.kind \in {"data", "empty"} => released[ev'.sock] = 0]_vars

\* The first socket was answered and then released; the second was dropped
\* by the peer before it sent anything, and is released now.
C18_Witness ==
    /\ ev.kind = "disconnected" /\ ev.sock = 2
    /\ served[1] /\ responses[1] = 1 /\ released[1] = 1
    /\ ~served[2] /\ responses[2] = 0 /\ released[2] = 1

\* C19: a request changes the control plane only when it is a POST to
\* /api/control/{group}/{item} with a body that is a JSON object holding
\* "value", on a control that exists, answered 200; it then changes that
\* control only.  A GET, an OPTIONS and every request answered 400, 404 or
\* 405 leave the control plane as it was.
C19_OnlySetControlWrites ==
    [][ev'.kind = "data" =>
          LET req == ev'.request
              parts == PathParts(req.path)
              key == ConfigKey(EnsureBrackets(fromPercentEncoding(parts[3])),
                               fromPercentEncoding(parts[4]))
              doc == fromJson(req.body)
          IN  /\ ctl' # ctl =>
                    /\ req.method = <<"POST">>
                    /\ Len(parts) >= 4 /\ parts[1] = <<"api">> /\ parts[2] = <<"control">>
                    /\ doc.t = "obj" /\ "value" \in DOMAIN doc.v
                    /\ key \in DOMAIN ctl
                    /\ DOMAIN ctl' = DOMAIN ctl
                    /\ \A k \in DOMAIN ctl \ {key} : ctl'[k] = ctl[k]
                    /\ ev'.written[1].statusCode = 200
              /\ (\/ req.method \in {<<"GET">>, <<"OPTIONS">>}
                  \/ ev'.written[1].statusCode \in {400, 404, 405}) =>
                    ctl' = ctl]_vars

\* A write on the second socket changed [Channel1] volume and left [Master]
\* volume, after a request on the first socket was refused.
C19_Witness ==
    /\ IsControlRequest(<<"POST">>)
    /\ ev.sock = 2 /\ served[1]
    /\ RequestedKey = ConfigKey(Channel1, <<"volume">>)
    /\ DOMAIN ctl = CtlKeys
    /\ ctl[RequestedKey] = 0 /\ ctl[ConfigKey(Master, <<"volume">>)] = 1
    /\ ev.written[1].statusCode = 200
    /\ Members["value"] = JNum(0)

====
